---- MODULE Spec2Model ----
(***************************************************************************)
(* Model of the plan-node component of pev2 (src/unnamed/part_000): the    *)
(* per-node derived metrics (duration %, cost %, rows removed %), the      *)
(* severity classifiers, the worker counts and the highlight bar; and of   *)
(* the home view of the example application                                *)
(* (src/example/src/views/HomeView.vue): the plan form and the list of     *)
(* saved plans it keeps in localStorage.                                   *)
(*                                                                         *)
(* Values are JavaScript values: a record whose field k is the kind,       *)
(* "undefined", "null", "false", "NaN", "Infinity", "number" (with n and   *)
(* d, the non-negative rational n/d in lowest terms) or "string" (with s,  *)
(* the text).  Arithmetic is exact rational arithmetic with the IEEE       *)
(* special cases (x/0, 0/0, NaN propagation); plan telemetry is            *)
(* non-negative, so negative numbers and -Infinity do not occur.  The      *)
(* rounding error of a single IEEE operation is not modelled; the sample   *)
(* operands are ones on which it changes no floor or round.                *)
(***************************************************************************)
EXTENDS Integers, Sequences, FiniteSets, TLC

VARIABLES
    node,                      \* props.node of each component: NodeProp -> value
    plan,                      \* props.plan: planStats and content
    highlightType,             \* viewOptions.highlightType (shared by all components)
    mounted,                   \* whether the component of a node has run setup + onBeforeMount
    nodeProps,                 \* ref nodeProps
    executionTimePercent,      \* ref executionTimePercent
    costPercent,               \* ref costPercent
    barWidth,                  \* ref barWidth
    highlightValue,            \* ref highlightValue
    plannerRowEstimateValue,   \* ref plannerRowEstimateValue
    rowsRemoved,               \* ref rowsRemoved
    rowsRemovedPercent,        \* ref rowsRemovedPercent
    rowsRemovedPercentString,  \* ref rowsRemovedPercentString
    localStorage,              \* HomeView: the item "plans" of localStorage (Null: no item)
    homeMounted,               \* HomeView: whether onMounted has run
    planInput,                 \* HomeView: ref planInput
    queryInput,                \* HomeView: ref queryInput
    queryName,                 \* HomeView: ref queryName
    savedPlans,                \* HomeView: ref savedPlans
    currentPlanIndex,          \* HomeView: ref currentPlanIndex
    now,                       \* HomeView: the time new Date() gives
    loadedPlan                 \* history: the saved plan loadPlan last put in the form

refs == <<nodeProps, executionTimePercent, costPercent, barWidth, highlightValue,
          plannerRowEstimateValue, rowsRemoved, rowsRemovedPercent,
          rowsRemovedPercentString>>
home == <<localStorage, homeMounted, planInput, queryInput, queryName, savedPlans,
          currentPlanIndex, now, loadedPlan>>
nodeVars == <<node, plan, highlightType, mounted, refs>>
vars == <<nodeVars, home>>

(***************************************************************************)
(* JavaScript values and the operators the component applies to them.      *)
(***************************************************************************)
Undefined == [k |-> "undefined"]
Null      == [k |-> "null"]
NaN       == [k |-> "NaN"]
Infinity  == [k |-> "Infinity"]
False     == [k |-> "false"]
Str(t)    == [k |-> "string", s |-> t]

RECURSIVE GCD(_, _)
GCD(a, b) == IF b = 0 THEN a ELSE GCD(b, a % b)

\* the number n/d (d > 0), in lowest terms
Frac(n, d) ==
    LET g == GCD(n, d)
    IN  [k |-> "number", n |-> n \div g, d |-> d \div g]

Num(i) == Frac(i, 1)

IsNumber(x) == x.k = "number"

\* ToNumber of the operands of an arithmetic operator: undefined -> NaN
ToNumber(x) == IF x.k = "undefined" THEN NaN ELSE x

\* x / y
Div(a, b) ==
    LET x == ToNumber(a)
        y == ToNumber(b)
    IN  IF x = NaN \/ y = NaN THEN NaN
        ELSE IF x = Infinity THEN (IF y = Infinity THEN NaN ELSE Infinity)
        ELSE IF y = Infinity THEN Num(0)
        ELSE IF y.n = 0 THEN (IF x.n = 0 THEN NaN ELSE Infinity)
        ELSE Frac(x.n * y.d, x.d * y.n)

\* x * y
Mul(a, b) ==
    LET x == ToNumber(a)
        y == ToNumber(b)
    IN  IF x = NaN \/ y = NaN THEN NaN
        ELSE IF x = Infinity THEN (IF y = Num(0) THEN NaN ELSE Infinity)
        ELSE IF y = Infinity THEN (IF x = Num(0) THEN NaN ELSE Infinity)
        ELSE Frac(x.n * y.n, x.d * y.d)

\* x + y
Add(a, b) ==
    LET x == ToNumber(a)
        y == ToNumber(b)
    IN  IF x = NaN \/ y = NaN THEN NaN
        ELSE IF x = Infinity \/ y = Infinity THEN Infinity
        ELSE Frac(x.n * y.d + y.n * x.d, x.d * y.d)

\* x > y: false whenever an operand is NaN
Gt(a, b) ==
    LET x == ToNumber(a)
        y == ToNumber(b)
    IN  IF x = NaN \/ y = NaN THEN FALSE
        ELSE IF x = Infinity THEN y # Infinity
        ELSE IF y = Infinity THEN FALSE
        ELSE x.n * y.d > y.n * x.d

\* x >= y: false whenever an operand is NaN
Ge(a, b) == Gt(a, b) \/ (ToNumber(a) # NaN /\ ToNumber(a) = ToNumber(b))

\* x === y
StrictEq(a, b) == a.k # "NaN" /\ a = b

\* !!x for the values that occur: undefined, null, NaN, 0 and "" are falsy
Truthy(x) ==
    /\ x.k \notin {"undefined", "null", "NaN", "false"}
    /\ ~(x.k = "number" /\ x.n = 0)
    /\ ~(x.k = "string" /\ x.s = "")

\* x || y
Or(a, b) == IF Truthy(a) THEN a ELSE b

\* Math.round(x), and _.round(x) with the default precision 0: floor(x + 0.5)
Round(a) ==
    LET x == ToNumber(a)
    IN  IF IsNumber(x) THEN Num((2 * x.n + x.d) \div (2 * x.d)) ELSE x

\* _.floor(x)
Floor(a) ==
    LET x == ToNumber(a)
    IN  IF IsNumber(x) THEN Num(x.n \div x.d) ELSE x

Digit(i) == <<"0", "1", "2", "3", "4", "5", "6", "7", "8", "9">>[i + 1]

RECURSIVE Digits(_)
Digits(i) == IF i < 10 THEN Digit(i) ELSE Digits(i \div 10) \o Digit(i % 10)

\* Number.prototype.toString() of an integer, NaN or Infinity
NumberToString(x) ==
    IF IsNumber(x) THEN Str(Digits(x.n \div x.d)) ELSE Str(x.k)

(***************************************************************************)
(* The plan and its nodes.  A node is the mapping NodeProp -> value of the *)
(* properties the component reads; an absent key reads as undefined.       *)
(* keyOrder is the order in which Object.keys(node) lists the two          *)
(* "rows removed ... revised" keys.  The plan carries planStats            *)
(* (executionTime, maxDuration, maxRows, maxCost) and content              *)
(* (maxTotalCost, and the root node's ACTUAL_TOTAL_TIME).                  *)
(***************************************************************************)
\* the two components the model follows (any two nodes of one plan)
NodeIds == {1, 2}

HighlightType == [NONE |-> "none", DURATION |-> "duration", ROWS |-> "rows", COST |-> "cost"]
HighlightTypes == {HighlightType.NONE, HighlightType.DURATION, HighlightType.ROWS, HighlightType.COST}

FilterFirst == <<"ROWS_REMOVED_BY_FILTER_REVISED", "ROWS_REMOVED_BY_JOIN_FILTER_REVISED">>
JoinFirst   == <<"ROWS_REMOVED_BY_JOIN_FILTER_REVISED", "ROWS_REMOVED_BY_FILTER_REVISED">>

EmptyNode ==
    [ EXCLUSIVE_DURATION |-> Undefined,
      EXCLUSIVE_COST |-> Undefined,
      ACTUAL_ROWS |-> Undefined,
      ACTUAL_LOOPS |-> Undefined,
      PLANNER_ESTIMATE_FACTOR |-> Undefined,
      HEAP_FETCHES |-> Undefined,
      ROWS_REMOVED_BY_FILTER |-> Undefined,
      ROWS_REMOVED_BY_JOIN_FILTER |-> Undefined,
      ROWS_REMOVED_BY_FILTER_REVISED |-> Undefined,
      ROWS_REMOVED_BY_JOIN_FILTER_REVISED |-> Undefined,
      WORKERS |-> Undefined,
      WORKERS_PLANNED |-> Undefined,
      WORKERS_LAUNCHED |-> Undefined,
      WORKERS_PLANNED_BY_GATHER |-> Undefined,
      keyOrder |-> FilterFirst ]

\* the keys calculateProps lists: all but PLANS and WORKERS
NodePropKeys == DOMAIN EmptyNode \ {"keyOrder", "WORKERS"}

\* a list of len worker records (only its length is read)
Workers(len) == [k |-> "array", length |-> len]

EmptyPlan ==
    [ executionTime |-> Undefined,
      maxDuration |-> Undefined,
      maxRows |-> Undefined,
      maxCost |-> Undefined,
      maxTotalCost |-> Undefined,
      rootActualTotalTime |-> Undefined ]

(***************************************************************************)
(* Formatting filters imported from "@/filters" (not part of the sources   *)
(* at hand): each renders a number as a non-empty display string; the      *)
(* model keeps the filter's name and its argument.                         *)
(***************************************************************************)
duration(value) == [k |-> "string", s |-> "duration", n |-> value.n, d |-> value.d]
rows(value) == [k |-> "string", s |-> "rows", n |-> value.n, d |-> value.d]
cost(value) == [k |-> "string", s |-> "cost", n |-> value.n, d |-> value.d]

(***************************************************************************)
(* Calculated properties                                                   *)
(***************************************************************************)
\* nodeProps: every key of the node with its value
calculateProps(i) ==
    [ k |-> "array", items |-> {<<key, node[i][key]>> : key \in {q \in NodePropKeys : node[i][q] # Undefined}} ]

calculateDuration(i) ==
    LET executionTime == Or(plan.executionTime, plan.rootActualTotalTime)
        dur == node[i].EXCLUSIVE_DURATION
    IN  Round(Mul(Div(dur, executionTime), Num(100)))

\* calculateCost rounding down instead of to the nearest integer
calculateCost_Floor(i) ==
    LET maxTotalCost == plan.maxTotalCost
        c == node[i].EXCLUSIVE_COST
    IN  Floor(Mul(Div(c, maxTotalCost), Num(100)))

calculateCost(i) ==
    LET maxTotalCost == plan.maxTotalCost
        c == node[i].EXCLUSIVE_COST
    IN  Round(Mul(Div(c, maxTotalCost), Num(100)))

\* the NodeProp member whose key is the first of the two revised keys present
rowsRemovedProp(i) ==
    LET present == SelectSeq(node[i].keyOrder, LAMBDA key : node[i][key] # Undefined)
    IN  IF present = <<>> THEN Undefined ELSE Str(Head(present))

\* the display rule of calculateRowsRemoved
rowsRemovedString(percent) ==
    IF StrictEq(percent, Num(100)) THEN Str(">99")
    ELSE IF StrictEq(percent, Num(0)) THEN Str("<1")
    ELSE NumberToString(percent)

\* calculateRowsRemoved rounding to the nearest integer instead of down
calculateRowsRemoved_Round(i) ==
    IF Truthy(rowsRemovedProp(i))
    THEN LET removed == node[i][rowsRemovedProp(i).s]
             actual == node[i].ACTUAL_ROWS
             percent == Round(Mul(Div(removed, Add(removed, actual)), Num(100)))
         IN  [ rowsRemoved |-> removed,
               rowsRemovedPercent |-> percent,
               rowsRemovedPercentString |-> rowsRemovedString(percent) ]
    ELSE [ rowsRemoved |-> rowsRemoved[i],
           rowsRemovedPercent |-> rowsRemovedPercent[i],
           rowsRemovedPercentString |-> rowsRemovedPercentString[i] ]

\* calculateRowsRemoved reading absent actual rows as 0 (actual || 0)
calculateRowsRemoved_ActualOrZero(i) ==
    IF Truthy(rowsRemovedProp(i))
    THEN LET removed == node[i][rowsRemovedProp(i).s]
             actual == Or(node[i].ACTUAL_ROWS, Num(0))
             percent == Floor(Mul(Div(removed, Add(removed, actual)), Num(100)))
         IN  [ rowsRemoved |-> removed,
               rowsRemovedPercent |-> percent,
               rowsRemovedPercentString |-> rowsRemovedString(percent) ]
    ELSE [ rowsRemoved |-> rowsRemoved[i],
           rowsRemovedPercent |-> rowsRemovedPercent[i],
           rowsRemovedPercentString |-> rowsRemovedPercentString[i] ]

\* the new values of rowsRemoved, rowsRemovedPercent, rowsRemovedPercentString
calculateRowsRemoved(i) ==
    IF Truthy(rowsRemovedProp(i))
    THEN LET removed == node[i][rowsRemovedProp(i).s]
             actual == node[i].ACTUAL_ROWS
             percent == Floor(Mul(Div(removed, Add(removed, actual)), Num(100)))
         IN  [ rowsRemoved |-> removed,
               rowsRemovedPercent |-> percent,
               rowsRemovedPercentString |-> rowsRemovedString(percent) ]
    ELSE [ rowsRemoved |-> rowsRemoved[i],
           rowsRemovedPercent |-> rowsRemovedPercent[i],
           rowsRemovedPercentString |-> rowsRemovedPercentString[i] ]

\* calculateBar testing the raw metric with !value instead of === undefined
calculateBar_Falsy(i, t) ==
    LET keep == [barWidth |-> barWidth[i], highlightValue |-> highlightValue[i]]
        value == CASE t = HighlightType.DURATION -> node[i].EXCLUSIVE_DURATION
                   [] t = HighlightType.ROWS -> node[i].ACTUAL_ROWS
                   [] t = HighlightType.COST -> node[i].EXCLUSIVE_COST
                   [] OTHER -> Undefined
    IN  IF t = HighlightType.NONE THEN keep
        ELSE IF ~Truthy(value) THEN [keep EXCEPT !.highlightValue = Null]
        ELSE CASE t = HighlightType.DURATION ->
                    [ barWidth |-> Round(Mul(Div(value, plan.maxDuration), Num(100))),
                      highlightValue |-> duration(value) ]
               [] t = HighlightType.ROWS ->
                    [ barWidth |-> Or(Round(Mul(Div(value, plan.maxRows), Num(100))), Num(0)),
                      highlightValue |-> rows(value) ]
               [] t = HighlightType.COST ->
                    [ barWidth |-> Round(Mul(Div(value, plan.maxCost), Num(100))),
                      highlightValue |-> cost(value) ]

\* the new values of barWidth and highlightValue under highlight type t
calculateBar(i, t) ==
    LET keep == [barWidth |-> barWidth[i], highlightValue |-> highlightValue[i]]
    IN  CASE t = HighlightType.DURATION ->
                LET value == node[i].EXCLUSIVE_DURATION
                IN  IF StrictEq(value, Undefined)
                    THEN [keep EXCEPT !.highlightValue = Null]
                    ELSE [ barWidth |-> Round(Mul(Div(value, plan.maxDuration), Num(100))),
                           highlightValue |-> duration(value) ]
          [] t = HighlightType.ROWS ->
                LET value == node[i].ACTUAL_ROWS
                IN  IF StrictEq(value, Undefined)
                    THEN [keep EXCEPT !.highlightValue = Null]
                    ELSE [ barWidth |-> Or(Round(Mul(Div(value, plan.maxRows), Num(100))), Num(0)),
                           highlightValue |-> rows(value) ]
          [] t = HighlightType.COST ->
                LET value == node[i].EXCLUSIVE_COST
                IN  IF StrictEq(value, Undefined)
                    THEN [keep EXCEPT !.highlightValue = Null]
                    ELSE [ barWidth |-> Round(Mul(Div(value, plan.maxCost), Num(100))),
                           highlightValue |-> cost(value) ]
          [] OTHER -> keep

(***************************************************************************)
(* Severity classifiers: "c-2", "c-3", "c-4" or false                      *)
(***************************************************************************)
\* if (c) return "c-" + c; return false     (c = 0 stands for c left unset)
ClassName(c) == IF c # 0 THEN Str("c-" \o Digit(c)) ELSE False

\* durationClass with >= in place of >
durationClass_Ge(i) ==
    LET x == executionTimePercent[i]
    IN  ClassName(IF Ge(x, Num(90)) THEN 4
                  ELSE IF Ge(x, Num(40)) THEN 3
                  ELSE IF Ge(x, Num(10)) THEN 2
                  ELSE 0)

durationClass(i) ==
    LET x == executionTimePercent[i]
    IN  ClassName(IF Gt(x, Num(90)) THEN 4
                  ELSE IF Gt(x, Num(40)) THEN 3
                  ELSE IF Gt(x, Num(10)) THEN 2
                  ELSE 0)

estimationClass(i) ==
    LET x == node[i].PLANNER_ESTIMATE_FACTOR
    IN  ClassName(IF Gt(x, Num(1000)) THEN 4
                  ELSE IF Gt(x, Num(100)) THEN 3
                  ELSE IF Gt(x, Num(10)) THEN 2
                  ELSE 0)

costClass(i) ==
    LET x == costPercent[i]
    IN  ClassName(IF Gt(x, Num(90)) THEN 4
                  ELSE IF Gt(x, Num(40)) THEN 3
                  ELSE IF Gt(x, Num(10)) THEN 2
                  ELSE 0)

\* rowsRemovedPercent * executionTimePercent
rowsRemovedInput(i) == Mul(rowsRemovedPercent[i], executionTimePercent[i])

\* rowsRemovedClass with >= in place of >
rowsRemovedClass_Ge(i) ==
    LET x == rowsRemovedInput(i)
    IN  ClassName(IF Ge(x, Num(2000)) THEN 4
                  ELSE IF Ge(x, Num(500)) THEN 3
                  ELSE 0)

rowsRemovedClass(i) ==
    LET x == rowsRemovedInput(i)
    IN  ClassName(IF Gt(x, Num(2000)) THEN 4
                  ELSE IF Gt(x, Num(500)) THEN 3
                  ELSE 0)

\* HEAP_FETCHES / (ACTUAL_ROWS + (removed by filter || 0) + (removed by join filter || 0)) * 100
heapFetchesInput(i) ==
    Mul(Div(node[i].HEAP_FETCHES,
            Add(Add(node[i].ACTUAL_ROWS, Or(node[i].ROWS_REMOVED_BY_FILTER, Num(0))),
                Or(node[i].ROWS_REMOVED_BY_JOIN_FILTER, Num(0)))),
        Num(100))

heapFetchesClass(i) ==
    LET x == heapFetchesInput(i)
    IN  ClassName(IF Gt(x, Num(90)) THEN 4
                  ELSE IF Gt(x, Num(40)) THEN 3
                  ELSE IF Gt(x, Num(10)) THEN 2
                  ELSE 0)

isNeverExecuted(i) == Truthy(plan.executionTime) /\ ~Truthy(node[i].ACTUAL_LOOPS)

(***************************************************************************)
(* Workers                                                                 *)
(***************************************************************************)
workersLaunchedCount(i) ==
    LET workers == node[i].WORKERS
    IN  IF Truthy(workers) THEN Num(workers.length) ELSE NaN

workersPlannedCount(i) == node[i].WORKERS_PLANNED_BY_GATHER

\* [...Array(workersPlanned).keys()].slice().reverse(): the slot indices,
\* highest first (Array(undefined) is the one-element array [undefined])
workersPlannedCountReversed(i) ==
    LET workersPlanned == node[i].WORKERS_PLANNED_BY_GATHER
        len == IF workersPlanned = Undefined THEN 1 ELSE workersPlanned.n
    IN  [x \in 1..len |-> len - x]

\* the template draws the worker slots (v-if="workersPlannedCount"), one per
\* index of workersPlannedCountReversed
workerSlots(i) ==
    IF Truthy(workersPlannedCount(i)) THEN workersPlannedCountReversed(i) ELSE <<>>

\* allWorkersLaunched without the "nothing launched" case
allWorkersLaunched_NoFalsyCase(i) ==
    StrictEq(node[i].WORKERS_PLANNED, node[i].WORKERS_LAUNCHED)

allWorkersLaunched(i) ==
    \/ ~Truthy(node[i].WORKERS_LAUNCHED)
    \/ StrictEq(node[i].WORKERS_PLANNED, node[i].WORKERS_LAUNCHED)

(***************************************************************************)
(* Operations                                                              *)
(***************************************************************************)
\* setup followed by onBeforeMount of the component of node i (one
\* synchronous step): the refs get their initial values in setup and
\* onBeforeMount calculates them.  (onBeforeMount also copies the node's
\* child plans and estimate direction into refs and registers the component
\* with its parent; none of the metrics reads those.)
Mount(i) ==
    /\ ~mounted[i]
    /\ mounted' = [mounted EXCEPT ![i] = TRUE]
    /\ nodeProps' = [nodeProps EXCEPT ![i] = calculateProps(i)]
    /\ barWidth' = [barWidth EXCEPT ![i] = calculateBar(i, highlightType).barWidth]
    /\ highlightValue' = [highlightValue EXCEPT ![i] = calculateBar(i, highlightType).highlightValue]
    /\ executionTimePercent' = [executionTimePercent EXCEPT ![i] = calculateDuration(i)]
    /\ costPercent' = [costPercent EXCEPT ![i] = calculateCost(i)]
    /\ rowsRemoved' = [rowsRemoved EXCEPT ![i] = calculateRowsRemoved(i).rowsRemoved]
    /\ rowsRemovedPercent' = [rowsRemovedPercent EXCEPT ![i] = calculateRowsRemoved(i).rowsRemovedPercent]
    /\ rowsRemovedPercentString' =
           [rowsRemovedPercentString EXCEPT ![i] = calculateRowsRemoved(i).rowsRemovedPercentString]
    /\ plannerRowEstimateValue' =
           [plannerRowEstimateValue EXCEPT ![i] = node[i].PLANNER_ESTIMATE_FACTOR]
    /\ UNCHANGED <<node, plan, highlightType, home>>

\* viewOptions.highlightType changes to t; the watcher of every mounted
\* component runs calculateBar
SetHighlightType(t) ==
    /\ t # highlightType
    /\ highlightType' = t
    /\ barWidth' = [i \in NodeIds |->
                       IF mounted[i] THEN calculateBar(i, t).barWidth ELSE barWidth[i]]
    /\ highlightValue' = [i \in NodeIds |->
                       IF mounted[i] THEN calculateBar(i, t).highlightValue ELSE highlightValue[i]]
    /\ UNCHANGED <<node, plan, mounted, nodeProps, executionTimePercent, costPercent,
                   plannerRowEstimateValue, rowsRemoved, rowsRemovedPercent,
                   rowsRemovedPercentString, home>>

(***************************************************************************)
(* HomeView: the plan form and the saved plans                             *)
(***************************************************************************)
\* an array slot that was never assigned
Hole == [k |-> "empty"]

\* a saved plan [name, plan text, query, createdAt]
Plan(name, text, query, createdAt) ==
    [k |-> "plan", name |-> name, text |-> text, query |-> query, createdAt |-> createdAt]

\* a sample [name, plan text, query]
Sample(name, text, query) == [k |-> "plan", name |-> name, text |-> text, query |-> query]

\* one of the samples
samples == << Sample(Str("Example 4"), Str("plan4_source"), Str("")) >>

\* JSON.stringify of an array of plans: an empty slot or undefined becomes null
JSONStringify(plans) ==
    [k |-> "json",
     items |-> [x \in DOMAIN plans |->
                   IF plans[x] \in {Hole, Undefined} THEN Null ELSE plans[x]]]

JSONParse(text) == text.items

\* JSON.parse(localStorage.getItem(KEY) || "[]")
loadSavedPlans == IF localStorage = Null THEN <<>> ELSE JSONParse(localStorage)

\* the item localStorage.setItem(KEY, JSON.stringify(plans)) writes
storeSavedPlans(plans) == JSONStringify(plans)

\* array[index] (indices from 0)
At(array, index) ==
    IF index < Len(array) /\ array[index + 1] # Hole THEN array[index + 1] ELSE Undefined

\* array[index] = value: an index past the end leaves empty slots before it
SetAt(array, index, value) ==
    IF index < Len(array) THEN [array EXCEPT ![index + 1] = value]
    ELSE array \o [x \in 1..(index - Len(array)) |-> Hole] \o <<value>>

\* array.splice(index, 1)
Splice(array, index) ==
    IF index < Len(array)
    THEN SubSeq(array, 1, index) \o SubSeq(array, index + 2, Len(array))
    ELSE array

\* the text of the time t (toLocaleString, toISOString)
DateString(t) == Str(ToString(t))

MaxPlans == 3
MaxNow == 2
InputTexts == {"x"}

\* setup of the view: the refs at their initial values
SetupRefs ==
    /\ homeMounted = FALSE
    /\ planInput = Str("")
    /\ queryInput = Str("")
    /\ queryName = Str("")
    /\ savedPlans = Undefined
    /\ currentPlanIndex = -1
    /\ loadedPlan = Null

OnMounted ==
    /\ ~homeMounted
    /\ homeMounted' = TRUE
    /\ savedPlans' = loadSavedPlans
    /\ UNCHANGED nodeVars
    /\ UNCHANGED <<localStorage, planInput, queryInput, queryName, currentPlanIndex,
                   now, loadedPlan>>

\* the view is left (a plan was opened, the page reloaded) and created anew
Setup ==
    /\ homeMounted
    /\ homeMounted' = FALSE
    /\ planInput' = Str("")
    /\ queryInput' = Str("")
    /\ queryName' = Str("")
    /\ savedPlans' = Undefined
    /\ currentPlanIndex' = -1
    /\ loadedPlan' = Null
    /\ UNCHANGED nodeVars
    /\ UNCHANGED <<localStorage, now>>

\* v-model of the three form fields
InputPlan(t) ==
    /\ homeMounted
    /\ planInput' = Str(t)
    /\ UNCHANGED nodeVars
    /\ UNCHANGED <<localStorage, homeMounted, queryInput, queryName, savedPlans,
                   currentPlanIndex, now, loadedPlan>>

InputQuery(t) ==
    /\ homeMounted
    /\ queryInput' = Str(t)
    /\ UNCHANGED nodeVars
    /\ UNCHANGED <<localStorage, homeMounted, planInput, queryName, savedPlans,
                   currentPlanIndex, now, loadedPlan>>

InputName(t) ==
    /\ homeMounted
    /\ queryName' = Str(t)
    /\ UNCHANGED nodeVars
    /\ UNCHANGED <<localStorage, homeMounted, planInput, queryInput, savedPlans,
                   currentPlanIndex, now, loadedPlan>>

\* savePlanData(sample): the list savedPlans becomes
savePlanData(sample) ==
    IF currentPlanIndex >= 0
    THEN SetAt(loadSavedPlans, currentPlanIndex, sample)
    ELSE <<sample>> \o loadSavedPlans

\* the plan submitPlan builds from the form at time t
newPlan(t) ==
    Plan(Or(queryName, Str("New Plan - " \o DateString(t).s)), planInput, queryInput,
         DateString(t))

\* submitPlan at time t, later than the submitPlan before (setPlanData hands
\* the plan to the application)
SubmitPlan(t) ==
    /\ homeMounted
    /\ t > now
    /\ now' = t
    /\ Len(savePlanData(newPlan(t))) <= MaxPlans
    /\ savedPlans' = savePlanData(newPlan(t))
    /\ localStorage' = storeSavedPlans(savePlanData(newPlan(t)))
    /\ UNCHANGED nodeVars
    /\ UNCHANGED <<homeMounted, planInput, queryInput, queryName, currentPlanIndex,
                   loadedPlan>>

\* loadPlan(p, index); index is Undefined when the caller gives none
loadPlan(p, index) ==
    IF ~Truthy(p)
    THEN UNCHANGED <<currentPlanIndex, queryName, planInput, queryInput, loadedPlan>>
    ELSE /\ currentPlanIndex' = IF index \notin {Null, Undefined} THEN index.n ELSE -1
         /\ queryName' = p.name
         /\ planInput' = p.text
         /\ queryInput' = p.query
         /\ loadedPlan' = IF index \notin {Null, Undefined} THEN p ELSE Null

\* click on a sample: loadPlan(sample)
LoadSample(x) ==
    /\ homeMounted
    /\ loadPlan(samples[x], Undefined)
    /\ UNCHANGED nodeVars
    /\ UNCHANGED <<localStorage, homeMounted, savedPlans, now>>

EditPlan(index) ==
    /\ homeMounted
    /\ index < Len(savedPlans)
    /\ loadPlan(At(savedPlans, index), Num(index))
    /\ UNCHANGED nodeVars
    /\ UNCHANGED <<localStorage, homeMounted, savedPlans, now>>

DeletePlan(index) ==
    /\ homeMounted
    /\ index < Len(savedPlans)
    /\ savedPlans' = Splice(savedPlans, index)
    /\ localStorage' = storeSavedPlans(Splice(savedPlans, index))
    /\ UNCHANGED nodeVars
    /\ UNCHANGED <<homeMounted, planInput, queryInput, queryName, currentPlanIndex,
                   now, loadedPlan>>

HomeNext ==
    \/ OnMounted
    \/ Setup
    \/ \E t \in InputTexts : InputPlan(t)
    \/ \E t \in InputTexts : InputQuery(t)
    \/ \E t \in InputTexts : InputName(t)
    \/ \E t \in 0..MaxNow : SubmitPlan(t)
    \/ \E x \in DOMAIN samples : LoadSample(x)
    \/ \E index \in 0..(MaxPlans - 1) : EditPlan(index)
    \/ \E index \in 0..(MaxPlans - 1) : DeletePlan(index)

Next ==
    \/ \E i \in NodeIds : Mount(i)
    \/ \E t \in HighlightTypes : SetHighlightType(t)

(***************************************************************************)
(* Initial states: no component is mounted yet, the refs hold the values   *)
(* setup gives them, and the plan and its nodes are drawn from bounded     *)
(* sets.  Each specification below varies the properties one group of      *)
(* metrics reads and leaves the others absent.                             *)
(***************************************************************************)
InitRefs ==
    /\ mounted = [i \in NodeIds |-> FALSE]
    /\ highlightType = HighlightType.NONE
    /\ nodeProps = [i \in NodeIds |-> Undefined]
    /\ executionTimePercent = [i \in NodeIds |-> NaN]
    /\ costPercent = [i \in NodeIds |-> NaN]
    /\ barWidth = [i \in NodeIds |-> Num(0)]
    /\ highlightValue = [i \in NodeIds |-> Null]
    /\ plannerRowEstimateValue = [i \in NodeIds |-> Undefined]
    /\ rowsRemoved = [i \in NodeIds |-> NaN]
    /\ rowsRemovedPercent = [i \in NodeIds |-> NaN]
    /\ rowsRemovedPercentString = [i \in NodeIds |-> Undefined]

\* undefined, or one of the numbers of S
\* the home view as constructed, nothing stored
InitHome ==
    /\ SetupRefs
    /\ localStorage = Null
    /\ now = 0

Opt(S) == {Undefined} \cup {Num(x) : x \in S}

\* node 1 drawn from D, the other node without telemetry
OneNode(D) == {f \in [NodeIds -> D \cup {EmptyNode}] : \A i \in NodeIds : i # 1 => f[i] = EmptyNode}

MaxVal == 3

\* duration %, never executed
DurationNodes ==
    { [EmptyNode EXCEPT !.EXCLUSIVE_DURATION = dur, !.ACTUAL_LOOPS = loops] :
        dur \in Opt(0..MaxVal), loops \in Opt(0..2) }

InitDuration ==
    /\ InitRefs
    /\ InitHome
    /\ node \in OneNode(DurationNodes)
    /\ \E et \in Opt(0..MaxVal), tt \in Opt(0..MaxVal) :
          plan = [EmptyPlan EXCEPT !.executionTime = et, !.rootActualTotalTime = tt]

SpecDuration == InitDuration /\ [][Next]_vars

MaxBar == 2

\* highlight bar: the three raw metrics of node 1 and the three recorded maxima
BarNodes ==
    { [EmptyNode EXCEPT !.EXCLUSIVE_DURATION = dur, !.ACTUAL_ROWS = r, !.EXCLUSIVE_COST = c] :
        dur \in Opt(0..MaxBar), r \in Opt(0..MaxBar), c \in Opt(0..MaxBar) }

InitBar ==
    /\ InitRefs
    /\ InitHome
    /\ node \in OneNode(BarNodes)
    /\ \E md \in Opt(0..MaxBar), mr \in Opt(0..MaxBar), mc \in Opt(0..MaxBar) :
          plan = [EmptyPlan EXCEPT !.maxDuration = md, !.maxRows = mr, !.maxCost = mc]

SpecBar == InitBar /\ [][Next]_vars

\* cost % and cost bar: the exclusive cost and the two cost maxima
CostNodes == { [EmptyNode EXCEPT !.EXCLUSIVE_COST = c] : c \in Opt(0..MaxVal) }

InitCost ==
    /\ InitRefs
    /\ InitHome
    /\ node \in [NodeIds -> CostNodes]
    /\ \E mt \in Opt(0..MaxVal), mc \in Opt(0..MaxVal) :
          plan = [EmptyPlan EXCEPT !.maxTotalCost = mt, !.maxCost = mc]

SpecCost == InitCost /\ [][Next]_vars

\* rows removed %: the two revised "rows removed" keys, their order among the
\* node's keys, and the actual rows
RowSamples == (0..MaxVal) \cup {50, 999999}

RowsNodes ==
    { [EmptyNode EXCEPT !.ROWS_REMOVED_BY_FILTER_REVISED = rf,
                        !.ROWS_REMOVED_BY_JOIN_FILTER_REVISED = rj,
                        !.keyOrder = ko,
                        !.ACTUAL_ROWS = r] :
        rf \in Opt(RowSamples), rj \in Opt({0, 50}), r \in Opt(RowSamples),
        ko \in {FilterFirst, JoinFirst} }

InitRows ==
    /\ InitRefs
    /\ InitHome
    /\ node \in OneNode({nd \in RowsNodes :
                            nd.keyOrder = JoinFirst =>
                                /\ nd.ROWS_REMOVED_BY_FILTER_REVISED # Undefined
                                /\ nd.ROWS_REMOVED_BY_JOIN_FILTER_REVISED # Undefined})
    /\ plan = EmptyPlan

SpecRows == InitRows /\ [][Next]_vars

\* severity classifiers: two nodes of one plan that differ in the input of one
\* classifier, with inputs on both sides of every threshold
PercentSamples == {0, 10, 11, 40, 41, 90, 91}

EstimationNodes ==
    { [EmptyNode EXCEPT !.PLANNER_ESTIMATE_FACTOR = f] :
        f \in Opt({5, 10, 11, 50, 100, 101, 500, 1000, 1001, 5000}) }

DurationClassNodes ==
    { [EmptyNode EXCEPT !.EXCLUSIVE_DURATION = dur] : dur \in Opt(PercentSamples) }

CostClassNodes ==
    { [EmptyNode EXCEPT !.EXCLUSIVE_COST = c] : c \in Opt(PercentSamples) }

HeapFetchesNodes ==
    { [EmptyNode EXCEPT !.HEAP_FETCHES = hf, !.ACTUAL_ROWS = r,
                        !.ROWS_REMOVED_BY_FILTER = rf,
                        !.ROWS_REMOVED_BY_JOIN_FILTER = rj] :
        hf \in Opt({0, 1, 2, 4, 5, 9, 10}), r \in Opt({0, 10}),
        rf \in Opt({10}), rj \in Opt({10}) }

RowsRemovedClassNodes ==
    { [EmptyNode EXCEPT !.ROWS_REMOVED_BY_FILTER_REVISED = rf, !.ACTUAL_ROWS = r,
                        !.EXCLUSIVE_DURATION = dur] :
        rf \in Opt({0, 1, 3}), r \in Opt({0, 1}), dur \in Opt({0, 10, 20, 40, 41}) }

InitClass ==
    /\ InitRefs
    /\ InitHome
    /\ \/ /\ node \in [NodeIds -> HeapFetchesNodes]
          /\ plan = EmptyPlan
       \/ /\ node \in [NodeIds -> EstimationNodes]
          /\ plan = EmptyPlan
       \/ /\ node \in [NodeIds -> DurationClassNodes]
          /\ \E et \in Opt({0, 100}), tt \in Opt({0, 50}) :
                plan = [EmptyPlan EXCEPT !.executionTime = et, !.rootActualTotalTime = tt]
       \/ /\ node \in [NodeIds -> CostClassNodes]
          /\ \E mt \in Opt({0, 100}) : plan = [EmptyPlan EXCEPT !.maxTotalCost = mt]
       \/ /\ node \in [NodeIds -> RowsRemovedClassNodes]
          /\ \E et \in Opt({0, 100}) : plan = [EmptyPlan EXCEPT !.executionTime = et]

SpecClass == InitClass /\ [][Next]_vars

MaxWorkers == 2

\* workers: the workers list and the three worker counts of node 1
WorkersNodes ==
    { [EmptyNode EXCEPT !.WORKERS = w, !.WORKERS_PLANNED = wp, !.WORKERS_LAUNCHED = wl,
                        !.WORKERS_PLANNED_BY_GATHER = wg] :
        w \in {Undefined} \cup {Workers(len) : len \in 0..MaxWorkers},
        wp \in Opt(0..MaxWorkers), wl \in Opt(0..MaxWorkers), wg \in Opt(0..MaxWorkers) }

InitWorkers ==
    /\ InitRefs
    /\ InitHome
    /\ node \in OneNode(WorkersNodes)
    /\ plan = EmptyPlan

SpecWorkers == InitWorkers /\ [][Next]_vars

\* the plans an earlier session saved
StoredPlan(x) == Plan(Str("Saved " \o ToString(x)), Str("saved_source"), Str(""),
                      DateString(0))

\* home view: nothing stored, or up to MaxPlans plans of an earlier session
InitHomeView ==
    /\ InitRefs
    /\ node = [i \in NodeIds |-> EmptyNode]
    /\ plan = EmptyPlan
    /\ SetupRefs
    /\ now = 0
    /\ localStorage \in {Null} \cup
           { storeSavedPlans([x \in 1..len |-> StoredPlan(x)]) : len \in 0..MaxPlans }

SpecHome == InitHomeView /\ [][HomeNext]_vars

(***************************************************************************)
(* Properties                                                              *)
(***************************************************************************)
\* x is a non-negative integer
IsInteger(x) == IsNumber(x) /\ x.d = 1

\* the raw metric calculateBar reads for highlight type t
RawMetric(i, t) ==
    CASE t = HighlightType.DURATION -> node[i].EXCLUSIVE_DURATION
      [] t = HighlightType.ROWS -> node[i].ACTUAL_ROWS
      [] t = HighlightType.COST -> node[i].EXCLUSIVE_COST
      [] OTHER -> Undefined

\* the recorded plan-wide maximum calculateBar divides by for highlight type t
RecordedMax(t) ==
    CASE t = HighlightType.DURATION -> plan.maxDuration
      [] t = HighlightType.ROWS -> plan.maxRows
      [] t = HighlightType.COST -> plan.maxCost
      [] OTHER -> Undefined

Dimensions == {HighlightType.DURATION, HighlightType.ROWS, HighlightType.COST}

\* C1: once calculateDuration has run, executionTimePercent is a non-negative
\* integer when the node has an exclusive duration and is undefined (the
\* component's NaN) exactly when it has none -- whatever the execution time
\* and the root's total time are.
C1_DurationPercentIntegerOrUndefined ==
    \A i \in NodeIds :
        mounted[i] =>
            /\ (node[i].EXCLUSIVE_DURATION = Undefined
                    <=> executionTimePercent[i] \in {Undefined, NaN})
            /\ (node[i].EXCLUSIVE_DURATION # Undefined
                    => IsInteger(executionTimePercent[i]))

\* C2: after calculateBar has run for a dimension whose recorded maximum is
\* positive, the bar fraction of a node that has the raw metric is a number
\* within [0, 100], also when the raw value exceeds the recorded maximum.
\* (C3 is about a maximum that is 0 or absent.)
C2_BarWidthWithin0And100 ==
    \A i \in NodeIds :
        ( /\ mounted[i]
          /\ highlightType \in Dimensions
          /\ RawMetric(i, highlightType) # Undefined
          /\ Gt(RecordedMax(highlightType), Num(0)) )
        => ( IsNumber(barWidth[i]) /\ ~Gt(barWidth[i], Num(100)) )

\* C3: with the recorded maximum of the highlighted dimension 0 or absent,
\* the bar fraction of a node that has the raw metric is 0.
C3_ZeroMaximumGivesZeroBar ==
    \A i \in NodeIds :
        ( /\ mounted[i]
          /\ highlightType \in Dimensions
          /\ RawMetric(i, highlightType) # Undefined
          /\ RecordedMax(highlightType) \in {Undefined, Num(0)} )
        => barWidth[i] = Num(0)

\* C8: isNeverExecuted is true exactly when the plan has an execution time
\* and the node's actual loops are zero or absent.
C8_NeverExecutedIffExecutionTimeExists ==
    \A i \in NodeIds :
        mounted[i] =>
            ( isNeverExecuted(i) <=>
                ( /\ plan.executionTime # Undefined
                  /\ node[i].ACTUAL_LOOPS \in {Undefined, Num(0)} ) )

\* the template shows the bar and its label
nodeBarShown(i) == highlightType # HighlightType.NONE /\ highlightValue[i] # Null

\* C9: after calculateBar has run for duration, rows or cost, the label is
\* null exactly when the node lacks the raw metric of that dimension (so a
\* metric of value 0 has a label), and the template shows the bar exactly
\* when the node has the metric.
C9_LabelNullIffMetricAbsent ==
    \A i \in NodeIds :
        (mounted[i] /\ highlightType \in Dimensions) =>
            /\ highlightValue[i] = Null <=> RawMetric(i, highlightType) = Undefined
            /\ nodeBarShown(i) <=> RawMetric(i, highlightType) # Undefined

\* C9 witness: a mounted node whose highlighted metric is present with value
\* 0 carries a label, after the highlight type was switched from a dimension
\* the node lacks.
C9_Witness ==
    \E i \in NodeIds :
        /\ mounted[i]
        /\ highlightType = HighlightType.ROWS
        /\ node[i].ACTUAL_ROWS = Num(0)
        /\ node[i].EXCLUSIVE_DURATION = Undefined
        /\ highlightValue[i] = rows(Num(0))

\* the value calculateRowsRemoved reads as "removed"
RemovedOf(i) ==
    IF rowsRemovedProp(i) = Undefined THEN Undefined ELSE node[i][rowsRemovedProp(i).s]

\* both rows-removed operands are present and removed + actual > 0
RowsRemovedDefined(i) ==
    /\ RemovedOf(i) # Undefined
    /\ node[i].ACTUAL_ROWS # Undefined
    /\ RemovedOf(i).n + node[i].ACTUAL_ROWS.n > 0

\* floor(removed / (removed + actual) * 100) for integer operands
FloorPercent(i) == (100 * RemovedOf(i).n) \div (RemovedOf(i).n + node[i].ACTUAL_ROWS.n)

\* the decimal text of an integer below 100
TwoDigits(x) == IF x < 10 THEN Digit(x) ELSE Digit(x \div 10) \o Digit(x % 10)

\* the display rule of C4 without its examples
RowsRemovedStringRule(i) ==
    /\ rowsRemovedPercent[i] = Num(FloorPercent(i))
    /\ rowsRemovedPercentString[i] = Str("<1") <=> FloorPercent(i) = 0
    /\ rowsRemovedPercentString[i] = Str(">99") <=> FloorPercent(i) = 100
    /\ FloorPercent(i) \notin {0, 100}
          => rowsRemovedPercentString[i] = Str(TwoDigits(FloorPercent(i)))

RowsExample(i, removed, actual) ==
    /\ RemovedOf(i) = Num(removed)
    /\ node[i].ACTUAL_ROWS = Num(actual)

\* C4, as claimed: the rows-removed string is "<1" exactly when the floor is
\* 0, ">99" exactly when it is 100 and the integer otherwise; removed=1,
\* actual=999999 gives "<1"; removed=999999, actual=1 gives ">99";
\* removed=50, actual=50 gives "50".
C4_Original ==
    \A i \in NodeIds :
        (mounted[i] /\ RowsRemovedDefined(i)) =>
            /\ RowsRemovedStringRule(i)
            /\ RowsExample(i, 1, 999999) => rowsRemovedPercentString[i] = Str("<1")
            /\ RowsExample(i, 999999, 1) => rowsRemovedPercentString[i] = Str(">99")
            /\ RowsExample(i, 50, 50) => rowsRemovedPercentString[i] = Str("50")

\* C4, amended: the same rule, where removed=999999, actual=1 gives "99" (the
\* floor of 99.9999); ">99" stands for a floor of exactly 100, which needs
\* actual rows = 0.
C4_RowsRemovedString ==
    \A i \in NodeIds :
        (mounted[i] /\ RowsRemovedDefined(i)) =>
            /\ RowsRemovedStringRule(i)
            /\ RowsExample(i, 1, 999999) => rowsRemovedPercentString[i] = Str("<1")
            /\ RowsExample(i, 999999, 1) => rowsRemovedPercentString[i] = Str("99")
            /\ RowsExample(i, 50, 50) => rowsRemovedPercentString[i] = Str("50")
            /\ rowsRemovedPercentString[i] = Str(">99") => node[i].ACTUAL_ROWS = Num(0)

\* C4 witness: calculateRowsRemoved has run on removed=999999, actual=1
C4_Witness ==
    \E i \in NodeIds :
        /\ mounted[i]
        /\ RowsExample(i, 999999, 1)
        /\ rowsRemoved[i] = Num(999999)
        /\ rowsRemovedPercentString[i] = Str("99")

\* C5: unless a rows-removed value and the actual rows are both present and
\* removed + actual > 0, the rows-removed percentage is undefined (NaN, never
\* 0 or any other number) and no numeric display string exists for it (the
\* string is unset or the text "NaN"); so a percentage that is a number
\* implies both operands present with a positive sum.
C5_RowsRemovedPercentUndefined ==
    \A i \in NodeIds :
        /\ ~(mounted[i] /\ RowsRemovedDefined(i)) =>
              /\ rowsRemovedPercent[i] = NaN
              /\ rowsRemovedPercentString[i] \in {Undefined, Str("NaN")}
        /\ (mounted[i] /\ rowsRemovedProp(i) = Undefined) =>
              /\ rowsRemoved[i] = NaN
              /\ rowsRemovedPercentString[i] = Undefined

\* C5 witness: calculateRowsRemoved has run on a node with removed = 0 and
\* actual rows = 0 (removed + actual = 0): the percentage is NaN
C5_Witness ==
    \E i \in NodeIds :
        /\ mounted[i]
        /\ RemovedOf(i) = Num(0)
        /\ node[i].ACTUAL_ROWS = Num(0)
        /\ rowsRemoved[i] = Num(0)
        /\ rowsRemovedPercent[i] = NaN
        /\ rowsRemovedPercentString[i] = Str("NaN")

\* tiers: none < low < medium < high
Tier(c) ==
    CASE c = False -> 0
      [] c = Str("c-2") -> 1
      [] c = Str("c-3") -> 2
      [] c = Str("c-4") -> 3

\* a and b are defined inputs with a <= b
DefinedLeq(a, b) ==
    /\ ToNumber(a) # NaN
    /\ ToNumber(b) # NaN
    /\ ~Gt(a, b)

\* C6: every classifier is monotonic in its input, an input equal to a
\* threshold falls in the lower tier, and estimation factor 5 gives none,
\* 50 low, 500 medium, 5000 high.
C6_ClassifiersMonotonic ==
    \A i, j \in NodeIds :
        (mounted[i] /\ mounted[j]) =>
            /\ DefinedLeq(executionTimePercent[i], executionTimePercent[j])
                  => Tier(durationClass(i)) <= Tier(durationClass(j))
            /\ DefinedLeq(costPercent[i], costPercent[j])
                  => Tier(costClass(i)) <= Tier(costClass(j))
            /\ DefinedLeq(node[i].PLANNER_ESTIMATE_FACTOR, node[j].PLANNER_ESTIMATE_FACTOR)
                  => Tier(estimationClass(i)) <= Tier(estimationClass(j))
            /\ DefinedLeq(heapFetchesInput(i), heapFetchesInput(j))
                  => Tier(heapFetchesClass(i)) <= Tier(heapFetchesClass(j))
            /\ DefinedLeq(rowsRemovedInput(i), rowsRemovedInput(j))
                  => Tier(rowsRemovedClass(i)) <= Tier(rowsRemovedClass(j))
            /\ executionTimePercent[i] = Num(10) => durationClass(i) = False
            /\ executionTimePercent[i] = Num(40) => durationClass(i) = Str("c-2")
            /\ executionTimePercent[i] = Num(90) => durationClass(i) = Str("c-3")
            /\ executionTimePercent[i] = Num(91) => durationClass(i) = Str("c-4")
            /\ costPercent[i] = Num(10) => costClass(i) = False
            /\ costPercent[i] = Num(40) => costClass(i) = Str("c-2")
            /\ costPercent[i] = Num(90) => costClass(i) = Str("c-3")
            /\ costPercent[i] = Num(91) => costClass(i) = Str("c-4")
            /\ heapFetchesInput(i) = Num(10) => heapFetchesClass(i) = False
            /\ heapFetchesInput(i) = Num(40) => heapFetchesClass(i) = Str("c-2")
            /\ heapFetchesInput(i) = Num(90) => heapFetchesClass(i) = Str("c-3")
            /\ heapFetchesInput(i) = Num(100) => heapFetchesClass(i) = Str("c-4")
            /\ rowsRemovedInput(i) = Num(500) => rowsRemovedClass(i) = False
            /\ rowsRemovedInput(i) = Num(2000) => rowsRemovedClass(i) = Str("c-3")
            /\ rowsRemovedInput(i) = Num(2050) => rowsRemovedClass(i) = Str("c-4")
            /\ node[i].PLANNER_ESTIMATE_FACTOR = Num(10) => estimationClass(i) = False
            /\ node[i].PLANNER_ESTIMATE_FACTOR = Num(100) => estimationClass(i) = Str("c-2")
            /\ node[i].PLANNER_ESTIMATE_FACTOR = Num(1000) => estimationClass(i) = Str("c-3")
            /\ node[i].PLANNER_ESTIMATE_FACTOR = Num(5) => estimationClass(i) = False
            /\ node[i].PLANNER_ESTIMATE_FACTOR = Num(50) => estimationClass(i) = Str("c-2")
            /\ node[i].PLANNER_ESTIMATE_FACTOR = Num(500) => estimationClass(i) = Str("c-3")
            /\ node[i].PLANNER_ESTIMATE_FACTOR = Num(5000) => estimationClass(i) = Str("c-4")

\* C6 witness: two mounted nodes whose duration percentages are 90 and 91,
\* classified medium and high
C6_Witness ==
    /\ mounted[1] /\ mounted[2]
    /\ executionTimePercent[1] = Num(90)
    /\ executionTimePercent[2] = Num(91)
    /\ durationClass(1) = Str("c-3")
    /\ durationClass(2) = Str("c-4")

\* the duration % has no defined value: no exclusive duration, or a zero or
\* absent denominator
DurationUndefined(i) ==
    \/ node[i].EXCLUSIVE_DURATION = Undefined
    \/ ~Truthy(Or(plan.executionTime, plan.rootActualTotalTime))

\* C7: a classifier whose underlying metric is undefined (an absent operand
\* or a zero denominator) returns false; the rows-removed composite does so
\* when either of its factors is undefined.
C7_UndefinedMetricClassifiesNone ==
    \A i \in NodeIds :
        mounted[i] =>
            /\ DurationUndefined(i) => durationClass(i) = False
            /\ ( \/ node[i].EXCLUSIVE_COST = Undefined
                 \/ ~Truthy(plan.maxTotalCost) ) => costClass(i) = False
            /\ node[i].PLANNER_ESTIMATE_FACTOR = Undefined => estimationClass(i) = False
            /\ ( \/ node[i].HEAP_FETCHES = Undefined
                 \/ node[i].ACTUAL_ROWS = Undefined
                 \/ Add(Add(node[i].ACTUAL_ROWS, Or(node[i].ROWS_REMOVED_BY_FILTER, Num(0))),
                        Or(node[i].ROWS_REMOVED_BY_JOIN_FILTER, Num(0))) = Num(0) )
                  => heapFetchesClass(i) = False
            /\ (~RowsRemovedDefined(i) \/ DurationUndefined(i)) => rowsRemovedClass(i) = False

\* C10, as claimed: for a node with an exclusive cost, the cost bar fraction
\* (calculateBar under highlight type cost) equals costPercent, both being
\* normalized by the same plan-wide cost maximum (stated for positive
\* recorded maxima).
C10_Original ==
    \A i \in NodeIds :
        ( /\ mounted[i]
          /\ highlightType = HighlightType.COST
          /\ node[i].EXCLUSIVE_COST # Undefined
          /\ Gt(plan.maxTotalCost, Num(0))
          /\ Gt(plan.maxCost, Num(0)) )
        => barWidth[i] = costPercent[i]

\* round(c / m * 100) for integers c >= 0, m > 0
RoundPercent(c, m) == (200 * c + m) \div (2 * m)

\* C10, amended: costPercent is round(exclusiveCost / plan.content.maxTotalCost
\* * 100) and the cost bar fraction is round(exclusiveCost /
\* plan.planStats.maxCost * 100); the two are equal whenever the two maxima
\* are equal.
C10_CostPercentAndCostBar ==
    \A i \in NodeIds :
        ( /\ mounted[i]
          /\ node[i].EXCLUSIVE_COST # Undefined )
        => /\ Gt(plan.maxTotalCost, Num(0))
                => costPercent[i] = Num(RoundPercent(node[i].EXCLUSIVE_COST.n, plan.maxTotalCost.n))
           /\ (highlightType = HighlightType.COST /\ Gt(plan.maxCost, Num(0)))
                => barWidth[i] = Num(RoundPercent(node[i].EXCLUSIVE_COST.n, plan.maxCost.n))
           /\ (highlightType = HighlightType.COST /\ plan.maxCost = plan.maxTotalCost)
                => barWidth[i] = costPercent[i]

\* C10 witness: a mounted node under highlight type cost whose cost % and bar
\* fraction are both 67 (cost 2, both maxima 3)
C10_Witness ==
    \E i \in NodeIds :
        /\ mounted[i]
        /\ highlightType = HighlightType.COST
        /\ plan.maxCost = plan.maxTotalCost
        /\ costPercent[i] = Num(67)
        /\ barWidth[i] = Num(67)

\* workersLaunchedCount is the length of the workers list, undefined (the
\* component's NaN) without one
WorkersLaunchedRule(i) ==
    /\ node[i].WORKERS = Undefined => workersLaunchedCount(i) = NaN
    /\ \A len \in 0..MaxWorkers :
          node[i].WORKERS = Workers(len) => workersLaunchedCount(i) = Num(len)

\* C11, as claimed: workersLaunched is the length of the workers list
\* (undefined without one), and allWorkersLaunched is true exactly when that
\* workersLaunched is falsy or equals the planned count that draws the slots.
C11_Original ==
    \A i \in NodeIds :
        mounted[i] =>
            /\ WorkersLaunchedRule(i)
            /\ allWorkersLaunched(i) <=>
                  ( \/ ~Truthy(workersLaunchedCount(i))
                    \/ StrictEq(workersPlannedCount(i), workersLaunchedCount(i)) )

\* C11, amended: workersLaunchedCount is as claimed; allWorkersLaunched is
\* true exactly when the node's WORKERS_LAUNCHED property is falsy or its
\* WORKERS_PLANNED property equals it -- two properties of the node, not the
\* length of the workers list and not WORKERS_PLANNED_BY_GATHER, which draws
\* the slots.
C11_AllWorkersLaunched ==
    \A i \in NodeIds :
        mounted[i] =>
            /\ WorkersLaunchedRule(i)
            /\ Len(workerSlots(i)) =
                  (IF IsNumber(node[i].WORKERS_PLANNED_BY_GATHER)
                   THEN node[i].WORKERS_PLANNED_BY_GATHER.n ELSE 0)
            /\ allWorkersLaunched(i) <=>
                  ( \/ node[i].WORKERS_LAUNCHED \in {Undefined, Num(0)}
                    \/ ( /\ IsNumber(node[i].WORKERS_PLANNED)
                         /\ node[i].WORKERS_PLANNED = node[i].WORKERS_LAUNCHED ) )

\* C11 witness: a mounted node whose workers list has one entry and whose
\* slots are two, while WORKERS_LAUNCHED = WORKERS_PLANNED = 2: all workers
\* count as launched although the list is shorter than the slots
C11_Witness ==
    \E i \in NodeIds :
        /\ mounted[i]
        /\ workersLaunchedCount(i) = Num(1)
        /\ workersPlannedCount(i) = Num(2)
        /\ node[i].WORKERS_LAUNCHED = Num(2)
        /\ node[i].WORKERS_PLANNED = Num(2)
        /\ allWorkersLaunched(i)

\* the product rowsRemovedPercent * durationPercent of two finite percents
PercentProduct(i) == (rowsRemovedPercent[i].n * executionTimePercent[i].n)
                         \div (rowsRemovedPercent[i].d * executionTimePercent[i].d)

\* the severity the rule of C12 gives to a finite product
RowsRemovedSeverity(x) ==
    IF x > 2000 THEN Str("c-4")
    ELSE IF x > 500 /\ x <= 2000 THEN Str("c-3")
    ELSE False

\* C12: the rows-removed severity is "c-4" when rowsRemovedPercent *
\* durationPercent is above 2000, "c-3" when it is above 500 and at most
\* 2000, none otherwise (none too when a percent is undefined); a node whose
\* durationPercent is 0 is never flagged.
C12_RowsRemovedSeverity ==
    \A i \in NodeIds :
        mounted[i] =>
            /\ ( /\ IsNumber(rowsRemovedPercent[i])
                 /\ IsNumber(executionTimePercent[i]) )
                  => rowsRemovedClass(i) = RowsRemovedSeverity(PercentProduct(i))
            /\ ( /\ IsNumber(rowsRemovedPercent[i])
                 /\ rowsRemovedPercent[i] # Num(0)
                 /\ executionTimePercent[i] = Infinity )
                  => rowsRemovedClass(i) = Str("c-4")
            /\ (rowsRemovedPercent[i] = NaN \/ executionTimePercent[i] = NaN)
                  => rowsRemovedClass(i) = False
            /\ executionTimePercent[i] = Num(0) => rowsRemovedClass(i) = False

\* C12 witness: one mounted node with product exactly 2000 (50 * 40), which
\* is "c-3", next to one with every row removed and durationPercent 0, which
\* is not flagged
C12_Witness ==
    \E i, j \in NodeIds :
        /\ mounted[i] /\ mounted[j]
        /\ rowsRemovedPercent[i] = Num(50)
        /\ executionTimePercent[i] = Num(40)
        /\ rowsRemovedClass(i) = Str("c-3")
        /\ rowsRemovedPercent[j] = Num(100)
        /\ executionTimePercent[j] = Num(0)
        /\ rowsRemovedClass(j) = False

\* the denominator of C13: the plan's execution time when it is present,
\* the root node's actual total time only when it is absent
ClaimedExecutionTime ==
    IF plan.executionTime # Undefined THEN plan.executionTime
    ELSE plan.rootActualTotalTime

\* C13: calculateDuration divides by the plan-level execution time when it
\* is present and by the root's actual total time only when it is absent;
\* the result is round(exclusiveDuration / denominator * 100).
C13_DurationDenominator ==
    \A i \in NodeIds :
        mounted[i] =>
            executionTimePercent[i] =
                Round(Mul(Div(node[i].EXCLUSIVE_DURATION, ClaimedExecutionTime), Num(100)))

\* what calculateBar leaves in (barWidth, highlightValue) when it runs for
\* type t on a component in its initial state (barWidth 0, highlightValue
\* null)
BarFromInitialState(i, t) ==
    IF t \in Dimensions /\ RawMetric(i, t) # Undefined
    THEN LET width == Round(Mul(Div(RawMetric(i, t), RecordedMax(t)), Num(100)))
         IN  [ barWidth |-> IF t = HighlightType.ROWS THEN Or(width, Num(0)) ELSE width,
               highlightValue |-> CASE t = HighlightType.DURATION -> duration(RawMetric(i, t))
                                    [] t = HighlightType.ROWS -> rows(RawMetric(i, t))
                                    [] t = HighlightType.COST -> cost(RawMetric(i, t)) ]
    ELSE [barWidth |-> Num(0), highlightValue |-> Null]

\* C14: the highlight encoding is history-independent: after any sequence
\* of highlight type changes, each followed by the watcher's calculateBar,
\* (barWidth, highlightValue) of a mounted node is what calculateBar gives
\* from the initial state for the current type, node and plan statistics;
\* nothing of a previously selected dimension survives a switch.
C14_HighlightHistoryIndependent ==
    \A i \in NodeIds :
        mounted[i] =>
            /\ barWidth[i] = BarFromInitialState(i, highlightType).barWidth
            /\ highlightValue[i] = BarFromInitialState(i, highlightType).highlightValue

\* C15: submitPlan after editPlan replaces exactly the saved plan that was
\* loaded into the form (while that plan is still saved) and leaves the
\* number and the content of the other saved plans unchanged; submitPlan
\* after a sample was loaded, or with nothing loaded, inserts the new plan at
\* the front and leaves the saved plans unchanged.  This holds of every
\* submitPlan step, whatever loadPlan, editPlan, deletePlan and submitPlan
\* steps came before.
C15_SubmitReplacesLoadedPlan ==
    [][ \A t \in 0..MaxNow :
          SubmitPlan(t) =>
              IF loadedPlan # Null
              THEN (\E x \in DOMAIN savedPlans : savedPlans[x] = loadedPlan) =>
                       \E x \in DOMAIN savedPlans :
                           /\ savedPlans[x] = loadedPlan
                           /\ savedPlans' = [savedPlans EXCEPT ![x] = newPlan(t)]
              ELSE savedPlans' = <<newPlan(t)>> \o savedPlans ]_vars

\* C16: once the view is mounted, and so after every submitPlan and every
\* deletePlan, savedPlans in memory is the list persisted in localStorage
\* under "plans"; deletePlan(index) removes exactly the entry at index and
\* keeps the order of the others.
C16_SavedPlansArePersisted ==
    /\ [](homeMounted => savedPlans = loadSavedPlans)
    /\ [][ \A index \in 0..(MaxPlans - 1) :
             (homeMounted' /\ DeletePlan(index)) =>
                 /\ Len(savedPlans') = Len(savedPlans) - 1
                 /\ \A x \in 1..index : savedPlans'[x] = savedPlans[x]
                 /\ \A x \in (index + 1)..Len(savedPlans') :
                        savedPlans'[x] = savedPlans[x + 1] ]_vars

====
